---- MODULE Spec2Model ----
(***************************************************************************)
(* INK (src/Ink.py): the conversation memory (INKMemory), the response     *)
(* generator (INKAIEngine) and the command dispatcher (chat).              *)
(*                                                                         *)
(* Texts are TLA+ strings.  A timestamp (datetime.now().isoformat()) is    *)
(* the reading of a clock, `now`, that advances with every reading.  The   *)
(* snapshot file is the JSON object json.dump writes: a record of the two  *)
(* arrays and last_updated, together with the file's length in bytes and   *)
(* whether its bytes are one intact JSON document.  json.dump followed by  *)
(* json.load maps a list of dicts of str to an equal list, so an array on  *)
(* disk is the sequence of records that was written.  Filesystem failures  *)
(* (open or write raising) are outside the model.                          *)
(***************************************************************************)
EXTENDS Integers, Sequences, FiniteSets, TLC

VARIABLES
    current_session,   \* INKMemory.current_session: sequence of Turns
    thinking_log,      \* INKMemory.thinking_log: sequence of ThoughtEntries
    memory_file,       \* cache/conversations/memory.json
    now,               \* the clock read by datetime.now() and time.time()
    model,             \* INKAIEngine.model: "None" or the configured model
    training_mode,     \* INKAIEngine.training_mode
    images,            \* cache/images: filename -> shape drawn
    user_message,      \* the message of the last request
    route,             \* the branch of chat() the last request took
    response,          \* 'response' of the last JSON reply
    thinking,          \* 'thinking' of the last JSON reply
    call,              \* the external call of the last request, if it made one
    nreq,              \* requests and restarts handled so far
    pc,                \* per worker thread: position in its request
    job,               \* per worker thread: the store operations left to run
    snap,              \* per worker thread: the dict save_memory is building
    overlap            \* some step ran while the other thread was mid-request

vars == <<current_session, thinking_log, memory_file, now, model, training_mode,
          images, user_message, route, response, thinking, call, nreq,
          pc, job, snap, overlap>>

-----------------------------------------------------------------------------
(* Bounds of the model *)

MaxRequests == 3
MaxLimit == 11

(* Program constants *)

Window == 100
DefaultLimit == 10
InputCut == 50
ThinkingTail == 5

-----------------------------------------------------------------------------
(* Python primitives *)

Min(a, b) == IF a < b THEN a ELSE b
Max(a, b) == IF a > b THEN a ELSE b

\* sub in s
Contains(s, sub) ==
    \E i \in 1..(Len(s) + 1) :
        i + Len(sub) - 1 <= Len(s) /\ SubSeq(s, i, i + Len(sub) - 1) = sub

\* Mutant: the prefix is looked for anywhere in the text
startswith_anywhere(s, prefix) == Contains(s, prefix)

\* str.startswith(prefix): literal, case-sensitive
startswith(s, prefix) ==
    Len(s) >= Len(prefix) /\ SubSeq(s, 1, Len(prefix)) = prefix

\* s[n:] and s[:n] of a str, n >= 0
StrFrom(s, n) == IF n >= Len(s) THEN "" ELSE SubSeq(s, n + 1, Len(s))
StrTo(s, n) == SubSeq(s, 1, Min(n, Len(s)))

\* The index a slice bound denotes in a list of length len: a negative bound
\* counts from the end, and both are clamped into 0..len.
SliceIndex(len, bound) ==
    IF bound < 0 THEN Max(len + bound, 0) ELSE Min(bound, len)

\* l[start:] of a list
ListFrom(l, start) == SubSeq(l, SliceIndex(Len(l), start) + 1, Len(l))

IsSpace(c) == c \in {" ", "\t", "\n"}

RECURSIVE lstrip(_)
lstrip(s) ==
    IF Len(s) > 0 /\ IsSpace(SubSeq(s, 1, 1)) THEN lstrip(StrFrom(s, 1)) ELSE s

RECURSIVE rstrip(_)
rstrip(s) ==
    IF Len(s) > 0 /\ IsSpace(SubSeq(s, Len(s), Len(s)))
    THEN rstrip(StrTo(s, Len(s) - 1))
    ELSE s

\* str.strip()
strip(s) == rstrip(lstrip(s))

Upper == "ABCDEFGHIJKLMNOPQRSTUVWXYZ"
Lower == "abcdefghijklmnopqrstuvwxyz"

LowerChar(c) ==
    IF \E i \in 1..26 : SubSeq(Upper, i, i) = c
    THEN LET i == CHOOSE j \in 1..26 : SubSeq(Upper, j, j) = c
         IN  SubSeq(Lower, i, i)
    ELSE c

RECURSIVE lower(_)
\* str.lower()
lower(s) ==
    IF Len(s) = 0 THEN "" ELSE LowerChar(SubSeq(s, 1, 1)) \o lower(StrFrom(s, 1))

RECURSIVE str(_)
\* str(n) of a non-negative int
str(n) ==
    IF n < 10 THEN SubSeq("0123456789", n + 1, n + 1)
    ELSE str(n \div 10) \o SubSeq("0123456789", (n % 10) + 1, (n % 10) + 1)

RECURSIVE join(_, _)
\* sep.join(parts)
join(sep, parts) ==
    IF Len(parts) = 0 THEN ""
    ELSE IF Len(parts) = 1 THEN parts[1]
    ELSE parts[1] \o sep \o join(sep, Tail(parts))

-----------------------------------------------------------------------------
(* The snapshot file *)

RECURSIVE SumLenTo(_, _, _)
\* The characters of `field` in the first n entries of l
SumLenTo(l, field, n) ==
    IF n = 0 THEN 0 ELSE Len(l[n][field]) + SumLenTo(l, field, n - 1)

SumLen(l, field) == SumLenTo(l, field, Len(l))

\* Bytes of json.dump(data, f, indent=2): 97 for the object with two empty
\* arrays and the 26-character last_updated; a non-empty array adds 2, each
\* Turn 100 plus its role and content, each ThoughtEntry 82 plus its thought.
JsonSize(data) ==
    97
    + (IF Len(data.current_session) = 0 THEN 0
       ELSE 2 + 100 * Len(data.current_session)
              + SumLen(data.current_session, "role")
              + SumLen(data.current_session, "content"))
    + (IF Len(data.thinking_log) = 0 THEN 0
       ELSE 2 + 82 * Len(data.thinking_log)
              + SumLen(data.thinking_log, "thought"))

\* os.path.exists(memory_file) is false: nothing was ever saved
NoFile ==
    [exists |-> FALSE, empty |-> TRUE, intact |-> FALSE, tail |-> 0,
     current_session |-> <<>>, thinking_log |-> <<>>, last_updated |-> 0]

\* open(memory_file, 'w'): the file exists and holds no byte
OpenW(file) ==
    [exists |-> TRUE, empty |-> TRUE, intact |-> FALSE, tail |-> 0,
     current_session |-> <<>>, thinking_log |-> <<>>, last_updated |-> 0]

\* The file's length in bytes: the document last written from offset 0 and
\* the bytes left behind it
FileSize(file) ==
    IF file.empty THEN 0 ELSE JsonSize(file) + file.tail

\* The bytes of data written from offset 0 of a handle opened with 'w', then
\* close.  Bytes the file holds beyond them (written through another handle
\* since this one was opened) stay, and the file is then no JSON document.
WriteClose(file, data) ==
    LET tail == IF file.empty THEN 0 ELSE Max(FileSize(file) - JsonSize(data), 0)
    IN  [exists |-> TRUE, empty |-> FALSE,
         intact |-> tail = 0,
         tail |-> tail,
         current_session |-> data.current_session,
         thinking_log |-> data.thinking_log,
         last_updated |-> data.last_updated]

-----------------------------------------------------------------------------
(* INKMemory.  A memory is the record                                      *)
(* [current_session, thinking_log, memory_file, now].                      *)

\* Mutant: the window keeps the oldest entries
SnapshotData_oldest(m) ==
    [current_session |-> SubSeq(m.current_session, 1, Min(Window, Len(m.current_session))),
     thinking_log |-> SubSeq(m.thinking_log, 1, Min(Window, Len(m.thinking_log))),
     last_updated |-> m.now]

\* Mutant: the window is one entry short
SnapshotData_short(m) ==
    [current_session |-> ListFrom(m.current_session, -(Window - 1)),
     thinking_log |-> ListFrom(m.thinking_log, -(Window - 1)),
     last_updated |-> m.now]

\* The dict save_memory dumps
SnapshotData(m) ==
    [current_session |-> ListFrom(m.current_session, -Window),
     thinking_log |-> ListFrom(m.thinking_log, -Window),
     last_updated |-> m.now]

save_memory(m) ==
    [m EXCEPT !.memory_file = WriteClose(OpenW(m.memory_file), SnapshotData(m)),
              !.now = m.now + 1]

add_message(m, role, content) ==
    save_memory([m EXCEPT
        !.current_session =
            Append(@, [role |-> role, content |-> content, timestamp |-> m.now]),
        !.now = m.now + 1])

add_thinking(m, thought) ==
    save_memory([m EXCEPT
        !.thinking_log = Append(@, [thought |-> thought, timestamp |-> m.now]),
        !.now = m.now + 1])

get_context(m, limit) == ListFrom(m.current_session, -limit)

\* Mutant: the thoughts are not reset
clear_session_turns_only(m) ==
    save_memory([m EXCEPT !.current_session = <<>>])

clear_session(m) ==
    save_memory([m EXCEPT !.current_session = <<>>, !.thinking_log = <<>>])

\* Mutant: the Turns are read under a key the file does not hold
load_memory_wrong_key(m) ==
    IF m.memory_file.exists
    THEN [m EXCEPT !.current_session = <<>>,
                   !.thinking_log = m.memory_file.thinking_log]
    ELSE m

\* data.get('current_session', []) and data.get('thinking_log', []) of the
\* file when it exists; the sequences stay as they are when it does not.
load_memory(m) ==
    IF m.memory_file.exists
    THEN [m EXCEPT !.current_session = m.memory_file.current_session,
                   !.thinking_log = m.memory_file.thinking_log]
    ELSE m

\* INKMemory(): empty sequences, then load_memory
NewMemory(file, clock) ==
    load_memory([current_session |-> <<>>, thinking_log |-> <<>>,
                 memory_file |-> file, now |-> clock])

-----------------------------------------------------------------------------
(* INKAIEngine *)

Configured == "gemini-2.5-flash"
Models == {"None", Configured}

\* What self.model.generate_content(prompt) followed by response.text gives:
\* the outcome of the external call, or the AttributeError of calling it on
\* None.  An outcome is [ok |-> TRUE, text |-> the reply] or
\* [ok |-> FALSE, text |-> str(e)].
generate_content(mdl, outcome) ==
    IF mdl = "None"
    THEN [ok |-> FALSE,
          text |-> "'NoneType' object has no attribute 'generate_content'"]
    ELSE outcome

ContextLine(t) == t.role \o ": " \o t.content

RECURSIVE ContextLines(_)
ContextLines(ctx) ==
    IF Len(ctx) = 0 THEN <<>> ELSE <<ContextLine(ctx[1])>> \o ContextLines(Tail(ctx))

\* The prompt generate_response sends
Prompt(m, user_input) ==
    "Previous conversation:\n"
    \o join("\n", ContextLines(get_context(m, DefaultLimit)))
    \o "\n\nUser: " \o user_input
    \o "\n\nRespond as INK, an intelligent AI assistant. Be concise, accurate, and helpful."
    \o " If asked to generate code, provide clean, working code."
    \o " If asked to create an SVG, describe what you'd create."

RECURSIVE Thoughts(_)
Thoughts(log) ==
    IF Len(log) = 0 THEN <<>> ELSE <<log[1].thought>> \o Thoughts(Tail(log))

\* Mutant: the first thought is recorded before the model is looked at
generate_response_unguarded(m, mdl, user_input, outcome) ==
    LET m1 == add_thinking(m, "Processing user input: "
                              \o StrTo(user_input, InputCut) \o "...")
    IN  IF mdl = "None"
        THEN [mem |-> m1,
              response |-> "Please configure GEMINI_API_KEY to use INK AI.",
              thinking |-> "Model not initialized - API key missing"]
        ELSE
          LET m2 == add_thinking(m1, "Generating response from Gemini...")
              r  == generate_content(mdl, outcome)
          IN  IF r.ok
              THEN LET m3 == add_message(m2, "user", user_input)
                       m4 == add_message(m3, "assistant", r.text)
                       m5 == add_thinking(m4, "Response generated successfully")
                   IN  [mem |-> m5,
                        response |-> r.text,
                        thinking |->
                            join("\n", Thoughts(ListFrom(m5.thinking_log, -ThinkingTail)))]
              ELSE [mem |-> add_thinking(m2, "Error: " \o r.text),
                    response |-> "I encountered an error: " \o r.text,
                    thinking |-> "Error: " \o r.text]

\* Mutant: the user's Turn is recorded before the model is called
generate_response_user_first(m, mdl, user_input, outcome) ==
    IF mdl = "None"
    THEN [mem |-> m,
          response |-> "Please configure GEMINI_API_KEY to use INK AI.",
          thinking |-> "Model not initialized - API key missing"]
    ELSE
      LET m1 == add_thinking(m, "Processing user input: "
                                \o StrTo(user_input, InputCut) \o "...")
          m2 == add_thinking(m1, "Generating response from Gemini...")
          m3 == add_message(m2, "user", user_input)
          r  == generate_content(mdl, outcome)
      IN  IF r.ok
          THEN LET m4 == add_message(m3, "assistant", r.text)
                   m5 == add_thinking(m4, "Response generated successfully")
               IN  [mem |-> m5,
                    response |-> r.text,
                    thinking |->
                        join("\n", Thoughts(ListFrom(m5.thinking_log, -ThinkingTail)))]
          ELSE [mem |-> add_thinking(m3, "Error: " \o r.text),
                response |-> "I encountered an error: " \o r.text,
                thinking |-> "Error: " \o r.text]

\* Result: [mem, response, thinking]
generate_response(m, mdl, user_input, outcome) ==
    IF mdl = "None"
    THEN [mem |-> m,
          response |-> "Please configure GEMINI_API_KEY to use INK AI.",
          thinking |-> "Model not initialized - API key missing"]
    ELSE
      LET m1 == add_thinking(m, "Processing user input: "
                                \o StrTo(user_input, InputCut) \o "...")
          m2 == add_thinking(m1, "Generating response from Gemini...")
          r  == generate_content(mdl, outcome)
      IN  IF r.ok
          THEN LET m3 == add_message(m2, "user", user_input)
                   m4 == add_message(m3, "assistant", r.text)
                   m5 == add_thinking(m4, "Response generated successfully")
               IN  [mem |-> m5,
                    response |-> r.text,
                    thinking |->
                        join("\n", Thoughts(ListFrom(m5.thinking_log, -ThinkingTail)))]
          ELSE [mem |-> add_thinking(m2, "Error: " \o r.text),
                response |-> "I encountered an error: " \o r.text,
                thinking |-> "Error: " \o r.text]

\* Result: [mem, response]
generate_code(m, mdl, description, outcome) ==
    LET m1 == add_thinking(m, "Code generation requested: " \o description)
        r  == generate_content(mdl, outcome)
    IN  IF r.ok
        THEN [mem |-> add_thinking(m1, "Code generated successfully"),
              response |-> r.text]
        ELSE [mem |-> m1, response |-> "Error generating code: " \o r.text]

\* Result: [mem, training_mode, response]
train_mode(m, instruction) ==
    [mem |-> add_thinking(m, "Training instruction received: " \o instruction),
     training_mode |-> TRUE,
     response |-> "Training mode activated. Instruction: " \o instruction]

-----------------------------------------------------------------------------
(* generate_svg *)

Shape(description) ==
    IF Contains(lower(description), "circle") THEN "circle"
    ELSE IF Contains(lower(description), "rect")
            \/ Contains(lower(description), "square") THEN "rect"
    ELSE IF Contains(lower(description), "star") THEN "star"
    ELSE "text"

\* dwg.save() writes cache/images/<filename>, replacing a file of that name
generate_svg(imgs, description, filename) ==
    {i \in imgs : i.filename # filename}
        \cup {[filename |-> filename, shape |-> Shape(description)]}

-----------------------------------------------------------------------------
(* chat: POST /api/chat *)

NoCall == [made |-> FALSE, ok |-> FALSE, text |-> ""]
Made(mdl, outcome) ==
    [made |-> TRUE, ok |-> generate_content(mdl, outcome).ok,
     text |-> generate_content(mdl, outcome).text]

\* An engine is [mem, model, training_mode, images].  Result: the engine's
\* fields after the request, the branch taken, the reply and the external
\* call the branch made.
chat(e, message, outcome) ==
    IF startswith(message, "/train")
    THEN LET r == train_mode(e.mem, strip(StrFrom(message, 7)))
         IN  [mem |-> r.mem, training_mode |-> r.training_mode,
              images |-> e.images, route |-> "train",
              response |-> r.response, thinking |-> "Entering training mode",
              call |-> NoCall]
    ELSE IF startswith(message, "/code")
    THEN LET r == generate_code(e.mem, e.model, strip(StrFrom(message, 6)), outcome)
         IN  [mem |-> r.mem, training_mode |-> e.training_mode,
              images |-> e.images, route |-> "code",
              response |-> r.response, thinking |-> "Generating code",
              call |-> Made(e.model, outcome)]
    ELSE IF startswith(message, "/svg")
    THEN LET filename == "svg_" \o str(e.mem.now) \o ".svg"
         IN  [mem |-> e.mem, training_mode |-> e.training_mode,
              images |-> generate_svg(e.images, strip(StrFrom(message, 5)), filename),
              route |-> "svg",
              response |-> "SVG created! View it at: /images/" \o filename,
              thinking |-> "Generating SVG image",
              call |-> NoCall]
    ELSE IF startswith(message, "/clear")
    THEN [mem |-> clear_session(e.mem), training_mode |-> e.training_mode,
          images |-> e.images, route |-> "clear",
          response |-> "Memory cleared!", thinking |-> "Session reset",
          call |-> NoCall]
    ELSE LET r == generate_response(e.mem, e.model, message, outcome)
         IN  [mem |-> r.mem, training_mode |-> e.training_mode,
              images |-> e.images, route |-> "chat",
              response |-> r.response, thinking |-> r.thinking,
              call |-> IF e.model = "None" THEN NoCall ELSE Made(e.model, outcome)]

-----------------------------------------------------------------------------
(* Inputs *)

Reply == [ok |-> TRUE, text |-> "ok"]
Outcomes == {Reply, [ok |-> FALSE, text |-> "quota exceeded"]}

Messages == {"/train be brief", "/code sort", "/svg a Circle", "/clear", "hello"}

DispatchHeads ==
    {"/train", "/code", "/svg", "/clear", "/Train", "/CODE", " /svg", "/clea",
     "hi /clear", "", "/trainer", "svg"}
DispatchTails == {"", " x", " /svg draw a circle", "/train", " /clear now", "/code"}
DispatchInputs == {h \o t : h \in DispatchHeads, t \in DispatchTails}

\* One chat request answered by the model
Exchange(m) == generate_response(m, Configured, "hello", Reply).mem

RECURSIVE After(_, _)
\* The memory after k such requests on m, one after the other
After(m, k) ==
    IF k = 0 THEN m
    ELSE LET a == After(m, k \div 2)
             b == IF a.now >= 0 THEN After(a, k \div 2) ELSE a
         IN  IF b.now >= 0 /\ k % 2 = 1 THEN Exchange(b) ELSE b

\* The memory after k chat requests answered by the model, from no file
History(k) == After(NewMemory(NoFile, 0), k)

\* Earlier runs of the program: the snapshot a start may find
PreloadChats == {0, Window \div 2 - 1, Window \div 2}
Preloads == {History(k) : k \in PreloadChats}

Threads == {1, 2}
NoSnap == [current_session |-> <<>>, thinking_log |-> <<>>, last_updated |-> 0]

-----------------------------------------------------------------------------
(* Request-serial execution *)

Mem == [current_session |-> current_session, thinking_log |-> thinking_log,
        memory_file |-> memory_file, now |-> now]

Engine == [mem |-> Mem, model |-> model, training_mode |-> training_mode,
           images |-> images]

\* ink_engine = INKAIEngine() at process start, on the snapshot an earlier
\* run left
Start(h, mdl) ==
    LET m == NewMemory(h.memory_file, h.now)
    IN  /\ current_session = m.current_session
        /\ thinking_log = m.thinking_log
        /\ memory_file = m.memory_file
        /\ now = m.now
        /\ model = mdl
        /\ training_mode = FALSE
        /\ images = {}
        /\ user_message = ""
        /\ route = "start"
        /\ response = ""
        /\ thinking = ""
        /\ call = NoCall
        /\ nreq = 0
        /\ pc = [t \in Threads |-> "idle"]
        /\ job = [t \in Threads |-> <<>>]
        /\ snap = [t \in Threads |-> NoSnap]
        /\ overlap = FALSE

Init == \E h \in Preloads, mdl \in Models : Start(h, mdl)

Serve(message, outcome) ==
    LET r == chat(Engine, message, outcome)
    IN  /\ current_session' = r.mem.current_session
        /\ thinking_log' = r.mem.thinking_log
        /\ memory_file' = r.mem.memory_file
        /\ now' = r.mem.now
        /\ training_mode' = r.training_mode
        /\ images' = r.images
        /\ user_message' = message
        /\ route' = r.route
        /\ response' = r.response
        /\ thinking' = r.thinking
        /\ call' = r.call
        /\ nreq' = nreq + 1
        /\ UNCHANGED <<model, pc, job, snap, overlap>>

Chat ==
    /\ nreq < MaxRequests
    /\ \E message \in Messages, outcome \in Outcomes : Serve(message, outcome)

\* The process ends and is started again: INKAIEngine() loads the snapshot.
\* A snapshot that is no JSON document makes json.load raise and the start
\* fail.
Restart ==
    /\ nreq < MaxRequests
    /\ memory_file.exists => memory_file.intact
    /\ \E mdl \in Models :
        LET m == NewMemory(memory_file, now)
        IN  /\ current_session' = m.current_session
            /\ thinking_log' = m.thinking_log
            /\ model' = mdl
            /\ training_mode' = FALSE
            /\ user_message' = ""
            /\ route' = "restart"
            /\ response' = ""
            /\ thinking' = ""
            /\ call' = NoCall
            /\ nreq' = nreq + 1
            /\ UNCHANGED <<memory_file, now, images, pc, job, snap, overlap>>

Next == Chat \/ Restart

Spec == Init /\ [][Next]_vars

\* One request on a fresh engine, over the dispatcher's inputs
Dispatch ==
    /\ nreq < 1
    /\ \E message \in DispatchInputs, outcome \in Outcomes : Serve(message, outcome)

NextDispatch == Dispatch

SpecDispatch == Init /\ [][NextDispatch]_vars

-----------------------------------------------------------------------------
(* Two requests on the shared engine, served by two worker threads.  A     *)
(* thread runs the store operations of its request in order; in each, the  *)
(* change of the in-memory sequences, open(memory_file, 'w'), the two      *)
(* slices of the dict and the write are steps of their own, between which  *)
(* the other thread may run.  The bytes of one json.dump reach the file in *)
(* one write, at close.  The replies are not recorded here.                *)

Thought(text) == [kind |-> "add_thinking", role |-> "", text |-> text]
Turn(role, content) == [kind |-> "add_message", role |-> role, text |-> content]
Clear == [kind |-> "clear_session", role |-> "", text |-> ""]

\* The store operations generate_response runs, in order
ResponseOps(mdl, user_input, outcome) ==
    IF mdl = "None" THEN <<>>
    ELSE <<Thought("Processing user input: " \o StrTo(user_input, InputCut) \o "..."),
           Thought("Generating response from Gemini...")>>
         \o IF generate_content(mdl, outcome).ok
            THEN <<Turn("user", user_input),
                   Turn("assistant", generate_content(mdl, outcome).text),
                   Thought("Response generated successfully")>>
            ELSE <<Thought("Error: " \o generate_content(mdl, outcome).text)>>

\* The store operations generate_code runs, in order
CodeOps(mdl, description, outcome) ==
    <<Thought("Code generation requested: " \o description)>>
    \o IF generate_content(mdl, outcome).ok
       THEN <<Thought("Code generated successfully")>>
       ELSE <<>>

\* The store operations chat() runs for a message, in order
ChatOps(mdl, message, outcome) ==
    IF startswith(message, "/train")
    THEN <<Thought("Training instruction received: " \o strip(StrFrom(message, 7)))>>
    ELSE IF startswith(message, "/code")
    THEN CodeOps(mdl, strip(StrFrom(message, 6)), outcome)
    ELSE IF startswith(message, "/svg")
    THEN <<>>
    ELSE IF startswith(message, "/clear")
    THEN <<Clear>>
    ELSE ResponseOps(mdl, message, outcome)

\* Thread 1 serves any request, thread 2 a command of one store operation
ConcMessages(t) ==
    IF t = 1 THEN {"/train", "/code x", "/clear", "hello"} ELSE {"/train", "/clear"}

Other(t) == CHOOSE u \in Threads : u # t
Running(t) == pc[t] \notin {"idle", "done"}

\* What every step of thread t leaves alone, and what it records
Step(t) ==
    /\ overlap' = (overlap \/ Running(Other(t)))
    /\ UNCHANGED <<model, images, user_message, route, response, thinking,
                   call, nreq>>

Finish(t) == IF Len(job[t]) > 1 THEN "op" ELSE "done"

\* chat() is entered with a message
Begin(t) ==
    /\ pc[t] = "idle"
    /\ \E message \in ConcMessages(t), outcome \in Outcomes :
        /\ job' = [job EXCEPT ![t] = ChatOps(model, message, outcome)]
        /\ pc' = [pc EXCEPT ![t] =
                    IF ChatOps(model, message, outcome) = <<>> THEN "done" ELSE "op"]
        /\ training_mode' = (training_mode \/ startswith(message, "/train"))
    /\ Step(t)
    /\ UNCHANGED <<current_session, thinking_log, memory_file, now, snap>>

\* add_message, add_thinking: the append; clear_session: its first assignment
Mutate(t) ==
    /\ pc[t] = "op"
    /\ LET o == job[t][1]
       IN  CASE o.kind = "add_message" ->
                 /\ current_session' = Append(current_session,
                        [role |-> o.role, content |-> o.text, timestamp |-> now])
                 /\ now' = now + 1
                 /\ pc' = [pc EXCEPT ![t] = "open"]
                 /\ UNCHANGED thinking_log
            [] o.kind = "add_thinking" ->
                 /\ thinking_log' = Append(thinking_log,
                        [thought |-> o.text, timestamp |-> now])
                 /\ now' = now + 1
                 /\ pc' = [pc EXCEPT ![t] = "open"]
                 /\ UNCHANGED current_session
            [] o.kind = "clear_session" ->
                 /\ current_session' = <<>>
                 /\ pc' = [pc EXCEPT ![t] = "clear"]
                 /\ UNCHANGED <<thinking_log, now>>
    /\ Step(t)
    /\ UNCHANGED <<memory_file, training_mode, job, snap>>

\* clear_session: self.thinking_log = []
ClearThoughts(t) ==
    /\ pc[t] = "clear"
    /\ thinking_log' = <<>>
    /\ pc' = [pc EXCEPT ![t] = "open"]
    /\ Step(t)
    /\ UNCHANGED <<current_session, memory_file, now, training_mode, job, snap>>

\* save_memory: open(self.memory_file, 'w')
Open(t) ==
    /\ pc[t] = "open"
    /\ memory_file' = OpenW(memory_file)
    /\ pc' = [pc EXCEPT ![t] = "turns"]
    /\ Step(t)
    /\ UNCHANGED <<current_session, thinking_log, now, training_mode, job, snap>>

\* save_memory: self.current_session[-100:]
SliceTurns(t) ==
    /\ pc[t] = "turns"
    /\ snap' = [snap EXCEPT ![t].current_session = SnapshotData(Mem).current_session]
    /\ pc' = [pc EXCEPT ![t] = "thoughts"]
    /\ Step(t)
    /\ UNCHANGED <<current_session, thinking_log, memory_file, now,
                   training_mode, job>>

\* save_memory: self.thinking_log[-100:] and datetime.now().isoformat()
SliceThoughts(t) ==
    /\ pc[t] = "thoughts"
    /\ snap' = [snap EXCEPT ![t].thinking_log = SnapshotData(Mem).thinking_log,
                            ![t].last_updated = SnapshotData(Mem).last_updated]
    /\ now' = now + 1
    /\ pc' = [pc EXCEPT ![t] = "write"]
    /\ Step(t)
    /\ UNCHANGED <<current_session, thinking_log, memory_file, training_mode, job>>

\* save_memory: json.dump and the close that ends the with block
Write(t) ==
    /\ pc[t] = "write"
    /\ memory_file' = WriteClose(memory_file, snap[t])
    /\ job' = [job EXCEPT ![t] = Tail(job[t])]
    /\ pc' = [pc EXCEPT ![t] = Finish(t)]
    /\ Step(t)
    /\ UNCHANGED <<current_session, thinking_log, now, training_mode, snap>>

NextConc ==
    \E t \in Threads :
        \/ Begin(t)
        \/ Mutate(t)
        \/ ClearThoughts(t)
        \/ Open(t)
        \/ SliceTurns(t)
        \/ SliceThoughts(t)
        \/ Write(t)

SpecConc == Init /\ [][NextConc]_vars

-----------------------------------------------------------------------------
(* Properties of request-serial execution *)

\* The last Min(n, Len(s)) entries of s, in order
LastN(s, n) ==
    [i \in 1..Min(n, Len(s)) |-> s[Len(s) - Min(n, Len(s)) + i]]

\* s is what is left of t once entries are dropped from its front
IsSuffix(s, t) == Len(s) <= Len(t) /\ s = LastN(t, Len(s))

Refusal == "Please configure GEMINI_API_KEY to use INK AI."

\* A step that serves a chat() request / that restarts the process
Served == nreq' = nreq + 1 /\ route' # "restart"
Restarted == nreq' = nreq + 1 /\ route' = "restart"

\* C1: whenever no request is running, the snapshot file holds the last
\* min(N, 100) Turns and the last min(M, 100) ThoughtEntries of the in-memory
\* sequences, in their order, so never more than 100 of either; while no
\* snapshot was ever written both sequences are empty.
C1_SnapshotIsRecentWindow ==
    IF memory_file.exists
    THEN /\ memory_file.intact
         /\ memory_file.current_session = LastN(current_session, Window)
         /\ memory_file.thinking_log = LastN(thinking_log, Window)
         /\ Len(memory_file.current_session) <= Window
         /\ Len(memory_file.thinking_log) <= Window
    ELSE current_session = <<>> /\ thinking_log = <<>>

C1_Witness ==
    /\ nreq > 0
    /\ Len(current_session) > Window
    /\ Len(thinking_log) > Window
    /\ Len(memory_file.current_session) = Window

\* C2: after a request that took the clear route both in-memory sequences are
\* empty, get_context returns the empty sequence for every limit, and the
\* snapshot file holds two empty arrays.
C2_ClearEmptiesStore ==
    route = "clear" =>
        /\ current_session = <<>>
        /\ thinking_log = <<>>
        /\ \A limit \in 0..MaxLimit : get_context(Mem, limit) = <<>>
        /\ memory_file.exists /\ memory_file.intact
        /\ memory_file.current_session = <<>>
        /\ memory_file.thinking_log = <<>>

\* the first request of a run that started on a snapshot with entries
C2_Witness == route = "clear" /\ nreq = 1 /\ now > 1

\* C3: a default-chat request served while model is None replies with the
\* fixed refusal and the fixed diagnostic and changes neither in-memory
\* sequence nor the snapshot file (last_updated included).
C3_NoCredentialNoMutation ==
    [][(Served /\ route' = "chat" /\ model = "None") =>
          /\ response' = Refusal
          /\ thinking' = "Model not initialized - API key missing"
          /\ current_session' = current_session
          /\ thinking_log' = thinking_log
          /\ memory_file' = memory_file]_vars

C3_Witness ==
    /\ route = "chat" /\ model = "None"
    /\ response = Refusal
    /\ Len(current_session) > 0 /\ Len(thinking_log) > 0

\* C4: a default-chat request whose external call fails is answered; it leaves
\* the Turns in memory and on disk as they were, appends thoughts of which the
\* last embeds the error description, and replies with a message embedding
\* the error and, as diagnostic, the text of that thought.
C4_FailureAbsorbed ==
    [][(Served /\ route' = "chat" /\ call'.made /\ ~call'.ok) =>
          /\ current_session' = current_session
          /\ memory_file'.current_session = memory_file.current_session
          /\ Len(thinking_log') > Len(thinking_log)
          /\ SubSeq(thinking_log', 1, Len(thinking_log)) = thinking_log
          /\ Contains(thinking_log'[Len(thinking_log')].thought, call'.text)
          /\ Contains(response', call'.text)
          /\ response' = "I encountered an error: " \o call'.text
          /\ thinking' = thinking_log'[Len(thinking_log')].thought]_vars

C4_Witness ==
    /\ route = "chat" /\ call.made /\ ~call.ok
    /\ Len(current_session) > 0
    /\ thinking = "Error: quota exceeded"

\* C6: with model None, both the default-chat route and the code route reply
\* with the fixed refusal text.
C6_RefusalOnEveryGeneration ==
    (model = "None" /\ route \in {"chat", "code"}) => response = Refusal

\* C7: a restart from a store of K <= 100 Turns, whose snapshot save_memory
\* wrote, loads exactly those K Turns: same order, same role, content and
\* timestamp.
C7_RoundTrip ==
    [][(Restarted /\ Len(current_session) <= Window) =>
          current_session' = current_session]_vars

C7_Witness ==
    route = "restart" /\ nreq > 1 /\ Len(current_session) = Window

\* C8: for every limit in 0..MaxLimit, get_context(limit) is the last
\* min(limit, n) Turns of the n in memory.
C8_ContextIsLastMin ==
    \A limit \in 0..MaxLimit : get_context(Mem, limit) = LastN(current_session, limit)

\* Turns come in pairs: user, assistant, user, assistant, ...
Alternates(s) ==
    /\ Len(s) % 2 = 0
    /\ \A i \in 1..Len(s) : s[i].role = IF i % 2 = 1 THEN "user" ELSE "assistant"

\* C9: the Turn sequence always alternates user, assistant from a user Turn
\* and has even length; a default-chat request the model answers appends the
\* user's Turn and then the assistant's, and every other request, and a
\* restart, appends none.
C9_TurnsAlternate ==
    /\ Alternates(current_session)
    /\ [][/\ Alternates(current_session')
          /\ IF Served /\ route' = "chat" /\ call'.made /\ call'.ok
             THEN /\ Len(current_session') = Len(current_session) + 2
                  /\ SubSeq(current_session', 1, Len(current_session)) = current_session
                  /\ current_session'[Len(current_session) + 1].role = "user"
                  /\ current_session'[Len(current_session) + 1].content = user_message'
                  /\ current_session'[Len(current_session) + 2].role = "assistant"
                  /\ current_session'[Len(current_session) + 2].content = call'.text
             ELSE IsSuffix(current_session', current_session)]_vars

\* a restart on a snapshot from which the oldest exchange had been dropped
C9_Witness ==
    /\ route = "restart"
    /\ Len(current_session) = Window
    /\ current_session[1] # History(Window \div 2).current_session[1]

-----------------------------------------------------------------------------
(* Properties of the dispatcher *)

Prefixes == <<"/train", "/code", "/svg", "/clear">>
Routes == <<"train", "code", "svg", "clear">>

\* p is an initial segment of s
IsPrefixOf(p, s) == \E n \in 0..Len(s) : SubSeq(s, 1, n) = p

Matching(s) == {i \in 1..Len(Prefixes) : IsPrefixOf(Prefixes[i], s)}

\* C5: the route taken is that of the first of /train, /code, /svg, /clear
\* that is a literal prefix of the message, and default chat when none is;
\* so it is one of five, and what follows the prefix has no part in it:
\* "/code /svg draw a circle" takes the code route.
C5_RouteByFirstPrefix ==
    route # "start" =>
        /\ route \in {"train", "code", "svg", "clear", "chat"}
        /\ route = IF Matching(user_message) = {} THEN "chat"
                   ELSE Routes[CHOOSE i \in Matching(user_message) :
                                   \A j \in Matching(user_message) : i <= j]
        /\ user_message = "/code /svg draw a circle" => route = "code"

C5_Witness == user_message = "/code /svg draw a circle" /\ route = "code"

-----------------------------------------------------------------------------
(* Properties of concurrent requests *)

AllDone == \A t \in Threads : pc[t] = "done"

\* C10: when the two requests did not overlap, the snapshot file they leave
\* is the window of the in-memory sequences, as under request-serial
\* execution; the state C10_Witness describes, reached only when they
\* overlap, is the lost update: both requests are done and the file, an
\* intact JSON document, lacks an entry that is among the last 100 in memory.
C10_SerialScheduleKeepsSnapshot ==
    (AllDone /\ ~overlap) => C1_SnapshotIsRecentWindow

C10_Witness ==
    /\ AllDone
    /\ memory_file.intact
    /\ \/ \E i \in 1..Len(LastN(thinking_log, Window)) :
            \A j \in 1..Len(memory_file.thinking_log) :
                memory_file.thinking_log[j] # LastN(thinking_log, Window)[i]
       \/ \E i \in 1..Len(LastN(current_session, Window)) :
            \A j \in 1..Len(memory_file.current_session) :
                memory_file.current_session[j] # LastN(current_session, Window)[i]

====
